---- MODULE Spec2Model ----
(***************************************************************************)
(* First-order step-response fitting (fit_model.py).                       *)
(*                                                                         *)
(* Numbers.  The program computes in binary floating point.  The model     *)
(* keeps that: a finite number is <<"fin", m, e>> and stands for m * 2^e   *)
(* (m odd, or m = 0 and e = 0), every arithmetic operation computes the    *)
(* exact result and rounds it to Precision significant bits, ties to even. *)
(* The build has 53 significant bits; the model takes a short mantissa so  *)
(* that the rounding cases are reached with short series.                  *)
(*                                                                         *)
(* Units.  Times are counted in units of 1e-6 (the floor of tau0) and      *)
(* measurements in units of 1e-12 (the guard of the interpolation          *)
(* denominator), so that both program constants are the number 1 of the    *)
(* respective unit and the optimizer's bound 1e-9 is 1/1000 of a time unit.*)
(***************************************************************************)
EXTENDS Integers, Sequences, FiniteSets, TLC

(***************************************************************************)
(* Bounds of the model.                                                    *)
(***************************************************************************)
Precision == 3      \* significant bits of a number
MaxLen == 6         \* longest raw series handed to fit_first_order
MaxN == 20          \* longest raw series handed to initial_guesses alone

(***************************************************************************)
(* Floating point.                                                         *)
(***************************************************************************)
NaN == <<"nan", 0, 0>>
PInf == <<"inf", 1, 0>>
NInf == <<"inf", -1, 0>>

Abs(n) == IF n < 0 THEN -n ELSE n
Sgn(n) == IF n < 0 THEN -1 ELSE 1
Min(a, b) == IF a < b THEN a ELSE b

isfinite(x) == x[1] = "fin"

RECURSIVE Normalise(_, _)
Normalise(m, e) ==
    IF m = 0 THEN <<"fin", 0, 0>>
    ELSE IF m % 2 = 0 THEN Normalise(m \div 2, e + 1)
    ELSE <<"fin", m, e>>

\* number of low bits of a that do not fit in Precision bits
RECURSIVE ExtraBits(_)
ExtraBits(a) == IF a < 2^Precision THEN 0 ELSE 1 + ExtraBits(a \div 2)

\* m * 2^e rounded to Precision significant bits, ties to even
RoundP(m, e) ==
    LET a == Abs(m)
        k == ExtraBits(a)
        q == a \div (2^k)
        r == a % (2^k)
        half == 2^(k - 1)
        up == r > half \/ (r = half /\ q % 2 = 1)
    IN IF k = 0 THEN Normalise(m, e)
       ELSE Normalise(Sgn(m) * (IF up THEN q + 1 ELSE q), e + k)

FromInt(n) == RoundP(n, 0)

\* the exact difference a - b of two finite numbers, as an integer multiple
\* of 2^min(ea, eb)
Diff(a, b) ==
    LET e == Min(a[3], b[3])
    IN a[2] * 2^(a[3] - e) - b[2] * 2^(b[3] - e)

FNeg(a) == IF a[1] = "nan" THEN NaN ELSE <<a[1], -a[2], a[3]>>

FAdd(a, b) ==
    IF a[1] = "nan" \/ b[1] = "nan" THEN NaN
    ELSE IF a[1] = "inf" /\ b[1] = "inf" THEN (IF a = b THEN a ELSE NaN)
    ELSE IF a[1] = "inf" THEN a
    ELSE IF b[1] = "inf" THEN b
    ELSE RoundP(Diff(a, FNeg(b)), Min(a[3], b[3]))

FSub(a, b) == FAdd(a, FNeg(b))

FMul(a, b) ==
    IF a[1] = "nan" \/ b[1] = "nan" THEN NaN
    ELSE IF a[1] = "inf" \/ b[1] = "inf"
         THEN (IF a[2] = 0 \/ b[2] = 0 THEN NaN
               ELSE <<"inf", Sgn(a[2]) * Sgn(b[2]), 0>>)
    ELSE RoundP(a[2] * b[2], a[3] + b[3])

\* the quotient is computed with 2*Precision + 2 extra bits and a sticky bit
FDiv(a, b) ==
    IF a[1] = "nan" \/ b[1] = "nan" THEN NaN
    ELSE IF a[1] = "inf" THEN (IF b[1] = "inf" THEN NaN
                               ELSE <<"inf", Sgn(a[2]) * Sgn(b[2]), 0>>)
    ELSE IF b[1] = "inf" THEN <<"fin", 0, 0>>
    ELSE IF b[2] = 0 THEN (IF a[2] = 0 THEN NaN ELSE <<"inf", Sgn(a[2]), 0>>)
    ELSE LET k == 2 * Precision + 2
             n == Abs(a[2]) * 2^k
             q == n \div Abs(b[2])
             s == IF n % Abs(b[2]) = 0 THEN 0 ELSE 1
         IN RoundP(Sgn(a[2]) * Sgn(b[2]) * (2 * q + s), a[3] - b[3] - k - 1)

\* n / d for integers n, d (d > 0), rounded once
Ratio(n, d) ==
    LET k == 2 * Precision + 10
        x == Abs(n) * 2^k
        q == x \div d
        s == IF x % d = 0 THEN 0 ELSE 1
    IN RoundP(Sgn(n) * (2 * q + s), 0 - k - 1)

\* a < b, a <= b: false when either side is not a number
FLt(a, b) ==
    IF a[1] = "nan" \/ b[1] = "nan" THEN FALSE
    ELSE IF a[1] = "inf" THEN a[2] < 0 /\ a # b
    ELSE IF b[1] = "inf" THEN b[2] > 0
    ELSE Diff(a, b) < 0

FLe(a, b) ==
    IF a[1] = "nan" \/ b[1] = "nan" THEN FALSE
    ELSE a = b \/ FLt(a, b)

\* Python's max(a, b): b when b > a, else a
PyMax(a, b) == IF FLt(a, b) THEN b ELSE a

Zero == FromInt(0)
One == FromInt(1)

(***************************************************************************)
(* Sequence helpers (numpy indexing).                                      *)
(***************************************************************************)
Max(a, b) == IF a > b THEN a ELSE b

\* s[mask]: the elements of s at the indices where the mask holds, in order
RECURSIVE Masked(_, _, _)
Masked(s, mask, i) ==
    IF i > Len(s) THEN <<>>
    ELSE IF mask[i] THEN <<s[i]>> \o Masked(s, mask, i + 1)
    ELSE Masked(s, mask, i + 1)

\* an array given elementwise, as a sequence
Vec(f) == SubSeq(f, 1, Len(f))

\* s[:n]
Head_(s, n) == SubSeq(s, 1, Min(n, Len(s)))

\* s[-n:] for n > 0
Tail_(s, n) == SubSeq(s, Max(1, Len(s) - n + 1), Len(s))

\* np.sum: the elements added in index order, each addition rounded
RECURSIVE np_sum(_)
np_sum(s) ==
    IF Len(s) = 0 THEN Zero
    ELSE FAdd(np_sum(SubSeq(s, 1, Len(s) - 1)), s[Len(s)])

\* np.mean: nan for an empty array
np_mean(s) == IF Len(s) = 0 THEN NaN ELSE FDiv(np_sum(s), FromInt(Len(s)))

(***************************************************************************)
(* np.exp, tabulated: e^(-k/8) in units of 1/1024 for k = 0, 1, ...; the   *)
(* argument is rounded to eighths, the result to Precision bits, and       *)
(* arguments past the table underflow to 0.                                *)
(***************************************************************************)
ExpTable ==
    << 1024, 904, 797, 704, 621, 548, 484, 427, 377, 332, 293, 259, 228,
       202, 178, 157, 139, 122, 108, 95, 84, 74, 65, 58, 51, 45, 40, 35,
       31, 27, 24, 21, 19, 17, 15, 13, 11, 10, 9, 8, 7, 6, 5, 5, 4, 4, 3,
       3, 3, 2, 2, 2, 2, 1, 1, 1, 1, 1, 1, 1, 1 >>

\* the number of eighths nearest to m * 2^e, m >= 0
Eighths(m, e) ==
    IF e + 3 >= 0
    THEN (IF e + 3 > 8 THEN Len(ExpTable) ELSE m * 2^(e + 3))
    ELSE (IF 0 - (e + 3) > 20 THEN 0
          ELSE (m + 2^(0 - (e + 3) - 1)) \div 2^(0 - (e + 3)))

np_exp(x) ==
    IF x[1] = "nan" THEN NaN
    ELSE IF x[1] = "inf" THEN (IF x[2] > 0 THEN PInf ELSE Zero)
    ELSE LET k == Eighths(Abs(x[2]), x[3])
             d == IF k < Len(ExpTable) THEN RoundP(ExpTable[k + 1], -10)
                  ELSE Zero
         IN IF x[2] <= 0 THEN d ELSE FDiv(One, d)

\* np.maximum(a, b)
np_maximum(a, b) ==
    IF a[1] = "nan" \/ b[1] = "nan" THEN NaN
    ELSE IF FLt(a, b) THEN b ELSE a

(***************************************************************************)
(* fit_model.py                                                            *)
(***************************************************************************)
\* variant: the shifted time is |t - t0| instead of max(t - t0, 0)
first_order_step_abs(tt, Ka, tau, y0, t_0) ==
    Vec([i \in 1..Len(tt) |->
        LET d == FSub(tt[i], t_0)
            t_shift == IF FLt(d, Zero) THEN FNeg(d) ELSE d
        IN FAdd(y0, FMul(Ka, FSub(One, np_exp(FDiv(FNeg(t_shift), tau)))))])

first_order_step(tt, Ka, tau, y0, t_0) ==
    Vec([i \in 1..Len(tt) |->
        LET t_shift == np_maximum(FSub(tt[i], t_0), Zero)
        IN FAdd(y0, FMul(Ka, FSub(One, np_exp(FDiv(FNeg(t_shift), tau)))))])

\* the stable ascending order of the indices 1..n of t: index n goes after
\* the indices whose time is not larger
RECURSIVE StableOrder(_, _)
StableOrder(tt, n) ==
    IF n = 0 THEN <<>>
    ELSE LET o == StableOrder(tt, n - 1)
             p == Cardinality({ q \in 1..Len(o) : FLe(tt[o[q]], tt[n]) })
         IN SubSeq(o, 1, p) \o <<n>> \o SubSeq(o, p + 1, Len(o))

\* the orders got from those of S by exchanging two neighbours of equal time
TieSwaps(tt, S) ==
    UNION { { [o EXCEPT ![q] = o[q + 1], ![q + 1] = o[q]] :
              q \in { r \in 1..(Len(o) - 1) : tt[o[r]] = tt[o[r + 1]] } } :
            o \in S }

RECURSIVE TieClosure(_, _)
TieClosure(tt, S) ==
    IF TieSwaps(tt, S) \subseteq S THEN S
    ELSE TieClosure(tt, S \cup TieSwaps(tt, S))

\* np.argsort(t): the index orders that put t in ascending order.  The
\* default sort is not stable, so equal times may come out in any order.
ArgSorts(tt) == TieClosure(tt, {StableOrder(tt, Len(tt))})

\* variant: the order is applied to t only, y stays as it was
Ordered_t_only(tm, ym) ==
    { << Vec([i \in 1..Len(o) |-> tm[o[i]]]), ym >> : o \in ArgSorts(tm) }

\* t[order], y[order] for every order np.argsort may return
Ordered(tm, ym) ==
    { << Vec([i \in 1..Len(o) |-> tm[o[i]]]),
         Vec([i \in 1..Len(o) |-> ym[o[i]]]) >> : o \in ArgSorts(tm) }

\* clean_sort(t, y): the pairs of arrays it may return
clean_sort(tt, yy) ==
    LET mask == Vec([i \in 1..Len(tt) |-> isfinite(tt[i]) /\ isfinite(yy[i])])
    IN Ordered(Masked(tt, mask, 1), Masked(yy, mask, 1))

\* variant: the floor is 0.0
FLOOR_zero == Zero

FLOOR == One                   \* 1e-6, the floor of tau0 (one time unit)
EPS == One                     \* 1e-12, the denominator guard (one value unit)
TAU_DEFAULT == FromInt(1000000)    \* 1.0, the tau0 of a series of one point
TAU_LB == Ratio(1, 1000)       \* 1e-9, the optimizer's lower bound on tau
C632 == Ratio(632, 1000)       \* 0.632
Three == FromInt(3)

\* variant: 0.2 * n rounded up
n_tail_ceil(n) == Max(3, (2 * n + 9) \div 10)

\* max(3, int(0.2 * n)): int() truncates, and the double product 0.2 * n
\* truncates to the same integer as the exact 2n/10 for every n up to 200
n_tail_of(n) == Max(3, (2 * n) \div 10)

\* variant: the search looks for samples at or below the target
Reaching_below(y_after, target) ==
    { j \in 1..Len(y_after) : FLe(y_after[j], target) }

\* np.where(y_after >= target)[0]: the indices (from 1) that reach the target
Reaching(y_after, target) ==
    { j \in 1..Len(y_after) : FLe(target, y_after[j]) }

SetMin(S) == CHOOSE j \in S : \A k \in S : j <= k

\* the crossing time between the straddling samples (t1, y1), (t2, y2)
t_cross_of(t1, y1, t2, y2, target) ==
    FAdd(t1, FDiv(FMul(FSub(target, y1), FSub(t2, t1)),
                  FAdd(FSub(y2, y1), EPS)))

\* lines 62 to 73: tau0 before the final floor
tau0_of(tt, t_after, y_after, target, t_0) ==
    LET idx == Reaching(y_after, target)
        i == SetMin(idx)
    IN IF idx = {}
       THEN (IF Len(tt) > 1 THEN FDiv(FSub(tt[Len(tt)], tt[1]), Three)
             ELSE TAU_DEFAULT)
       ELSE IF i = 1 THEN PyMax(FSub(t_after[1], t_0), FLOOR)
       ELSE PyMax(FSub(t_cross_of(t_after[i - 1], y_after[i - 1],
                                  t_after[i], y_after[i], target), t_0),
                  FLOOR)

\* lines 43 to 75: the body of initial_guesses after its own clean_sort
\* returned (tt, yy); the locals are kept next to the returned bundle
guesses_of(tt, yy, t_0) ==
    LET pre == Masked(yy, Vec([i \in 1..Len(tt) |-> FLe(tt[i], t_0)]), 1)
        y0 == IF Len(pre) >= 2 THEN np_mean(pre)
              ELSE np_mean(Head_(yy, Min(3, Len(yy))))
        n_tail == n_tail_of(Len(yy))
        y_inf == np_mean(Tail_(yy, n_tail))
        Ka0_ == FSub(y_inf, y0)
        target == FAdd(y0, FMul(C632, FSub(y_inf, y0)))
        after == Vec([i \in 1..Len(tt) |-> FLe(t_0, tt[i])])
        t_after == Masked(tt, after, 1)
        y_after == Masked(yy, after, 1)
        tau0_ == tau0_of(tt, t_after, y_after, target, t_0)
    IN [ Ka0 |-> Ka0_, tau0 |-> PyMax(tau0_, FLOOR), y0 |-> y0,
         t |-> tt, y |-> yy, n_tail |-> n_tail, y_inf |-> y_inf,
         target |-> target, t_after |-> t_after, y_after |-> y_after ]

\* initial_guesses(t, y, t0): the outcomes it may have
initial_guesses(tt, yy, t_0) ==
    { guesses_of(c[1], c[2], t_0) : c \in clean_sort(tt, yy) }

(***************************************************************************)
(* scipy.optimize.curve_fit, the library the program calls.  It either     *)
(* raises or returns parameters inside the bounds; which ones is left      *)
(* open.  A seed outside the bounds makes it raise at once.                *)
(***************************************************************************)
OptKa == {FromInt(-3), FromInt(5)}
OptTau == {TAU_LB, FromInt(2)}
OptY0 == {Zero, Three}

feasible(p) ==
    /\ \A j \in 1..Len(p) : p[j][1] # "nan"
    /\ FLe(TAU_LB, p[2])

curve_fit(p) ==
    IF ~feasible(p)
    THEN {[ok |-> FALSE, err |-> "ValueError: x0 is infeasible", popt |-> <<>>]}
    ELSE {[ok |-> FALSE, err |-> "RuntimeError: Optimal parameters not found",
           popt |-> <<>>]}
         \cup {[ok |-> TRUE, err |-> "", popt |-> q] :
               q \in {p} \cup
                     (IF Len(p) = 3
                      THEN {<<a, u, b>> : a \in OptKa, u \in OptTau, b \in OptY0}
                      ELSE {<<a, u>> : a \in OptKa, u \in OptTau})}

(***************************************************************************)
(* State.                                                                  *)
(***************************************************************************)
VARIABLES
    pc,         \* where the call stands
    in_t, in_y, \* the raw arrays of the call
    t0, fit_y0, \* the other arguments of the call
    t, y,       \* fit_first_order: the cleaned, sorted arrays
    ig,         \* the outcome of initial_guesses, with its locals
    Ka0, tau0, y0_guess,    \* the guess bundle
    p0, popt,   \* the seed handed to curve_fit and what it returned
    f_pin,      \* the y0 the function handed to curve_fit is closed over
    Ka_hat, tau_hat, y0_hat,
    y_fit, residuals, SSE, SStot, R2,
    result,     \* the record returned, NoRecord before and on failure
    err,        \* the exception raised, "" when none
    trace,      \* the stages run so far, in order
    m_args,     \* first_order_step called alone: its arguments
    m_out       \* first_order_step called alone: its value

vars == << pc, in_t, in_y, t0, fit_y0, t, y, ig, Ka0, tau0, y0_guess, p0,
           popt, f_pin, Ka_hat, tau_hat, y0_hat, y_fit, residuals, SSE,
           SStot, R2, result, err, trace, m_args, m_out >>

None == <<"none", 0, 0>>          \* a number not computed yet
NoRecord == [none |-> TRUE]       \* a record not built yet

(***************************************************************************)
(* Inputs.  A raw series is a two-level step: the first k samples read ya, *)
(* the others yb; its times ascend, descend or are out of order with one   *)
(* tie; and non-finite entries may be planted at its ends.                 *)
(***************************************************************************)
YVals == {0, 3, 5}
T0Vals == {0, 2, 20}
Patterns == {"asc", "desc", "tie"}
Contam == {"none", "nan_t", "inf_y", "both"}

\* the i-th number from 0 up that Precision bits hold exactly, so that the
\* sample times of a long series stay distinct
TimeAt(i) ==
    IF i < 2^Precision THEN i
    ELSE (2^(Precision - 1) + (i % (2^(Precision - 1))))
         * 2^((i \div (2^(Precision - 1))) - 1)

RawT(n, pat, c) ==
    [i \in 1..n |->
        IF c = "nan_t" /\ i = 1 THEN NaN
        ELSE IF c = "both" /\ i = n THEN NInf
        ELSE FromInt(TimeAt(CASE pat = "asc" -> i - 1
                              [] pat = "desc" -> n - i
                              [] pat = "tie" -> IF i = 1 THEN 1 ELSE i - 2))]

RawY(n, k, ya, yb, c) ==
    [i \in 1..n |->
        IF c = "inf_y" /\ i = n THEN PInf
        ELSE IF c = "both" /\ i = 1 THEN NaN
        ELSE FromInt(IF i <= k THEN ya ELSE yb)]

InputsUpTo(maxn) ==
    \E n \in 0..maxn : \E k \in 0..n : \E ya \in YVals, yb \in YVals :
    \E pat \in Patterns, c \in Contam :
        /\ in_t = RawT(n, pat, c)
        /\ in_y = RawY(n, k, ya, yb, c)

ModelT == {0, 1, 2, 3, 5}
ModelKa == {-3, 0, 5}
ModelTau == {TAU_LB, One, Three}
ModelY0 == {0, 3}
ModelT0 == {0, 2}

ModelInputs ==
    \E a \in ModelT, b \in ModelT, Ka \in ModelKa, tau \in ModelTau,
       y0 \in ModelY0, t_0 \in ModelT0 :
        m_args = [ t |-> <<FromInt(a), FromInt(b)>>, Ka |-> FromInt(Ka),
                   tau |-> tau, y0 |-> FromInt(y0), t0 |-> FromInt(t_0) ]

Blank ==
    /\ t = <<>> /\ y = <<>> /\ ig = NoRecord
    /\ Ka0 = None /\ tau0 = None /\ y0_guess = None
    /\ p0 = <<>> /\ popt = <<>> /\ f_pin = None
    /\ Ka_hat = None /\ tau_hat = None /\ y0_hat = None
    /\ y_fit = <<>> /\ residuals = <<>>
    /\ SSE = None /\ SStot = None /\ R2 = None
    /\ result = NoRecord /\ err = "" /\ trace = <<>>
    /\ m_out = <<>>

\* a call of fit_first_order(t, y, t0, fit_y0)
InitFit ==
    /\ pc = "clean"
    /\ InputsUpTo(MaxLen)
    /\ t0 \in {FromInt(v) : v \in T0Vals}
    /\ fit_y0 \in BOOLEAN
    /\ m_args = NoRecord
    /\ Blank

\* a call of initial_guesses(t, y, t0) on a series of at most maxn samples
InitGuess(maxn) ==
    /\ pc = "ig_call"
    /\ InputsUpTo(maxn)
    /\ t0 \in {FromInt(v) : v \in T0Vals}
    /\ fit_y0 = TRUE
    /\ m_args = NoRecord
    /\ Blank

\* a call of first_order_step(t, Ka, tau, y0, t0), tau > 0
InitModel ==
    /\ pc = "model_call"
    /\ ModelInputs
    /\ in_t = <<>> /\ in_y = <<>> /\ t0 = None /\ fit_y0 = TRUE
    /\ Blank

Init == InitFit \/ InitGuess(MaxLen) \/ InitModel

(***************************************************************************)
(* fit_first_order, stage by stage.                                        *)
(***************************************************************************)
\* variant: the guard lets a series of three points through
too_few_3(n) == n < 3

\* line 85
too_few(n) == n < 4

\* lines 84 to 86
Clean ==
    /\ pc = "clean"
    /\ \E c \in clean_sort(in_t, in_y) :
        /\ t' = c[1]
        /\ y' = c[2]
        /\ IF too_few(Len(c[1]))
           THEN /\ pc' = "raised"
                /\ err' = "ValueError: Need at least 4 valid data points."
           ELSE /\ pc' = "guess"
                /\ err' = err
    /\ trace' = Append(trace, "Clean")
    /\ UNCHANGED << in_t, in_y, t0, fit_y0, ig, Ka0, tau0, y0_guess, p0, popt,
                    f_pin, Ka_hat, tau_hat, y0_hat, y_fit, residuals, SSE,
                    SStot, R2, result, m_args, m_out >>

\* line 88
Guess ==
    /\ pc = "guess"
    /\ \E g \in initial_guesses(t, y, t0) :
        /\ ig' = g
        /\ Ka0' = g.Ka0
        /\ tau0' = g.tau0
        /\ y0_guess' = g.y0
    /\ pc' = "optimize"
    /\ trace' = Append(trace, "Guess")
    /\ UNCHANGED << in_t, in_y, t0, fit_y0, t, y, p0, popt, f_pin, Ka_hat,
                    tau_hat, y0_hat, y_fit, residuals, SSE, SStot, R2, result,
                    err, m_args, m_out >>

\* p0 of lines 94 and 103
seed_of(fit, ka, tau, y0) == IF fit THEN <<ka, tau, y0>> ELSE <<ka, tau>>

\* variant: the baseline is read from the end of popt in both modes
y0_hat_last(fit, q, y0) == q[Len(q)]

\* y0_hat of lines 98 and 108
y0_hat_of(fit, q, y0) == IF fit THEN q[3] ELSE y0

\* the y0 the lambda of lines 92 and 101 evaluates the model with: its own
\* third argument (None here) or the captured y0_guess
pin_of(fit, y0) == IF fit THEN None ELSE y0

\* variant: a failed attempt is tried again
Optimize_retry ==
    /\ pc = "optimize"
    /\ p0' = seed_of(fit_y0, Ka0, tau0, y0_guess)
    /\ f_pin' = pin_of(fit_y0, y0_guess)
    /\ \E r \in curve_fit(p0') :
          IF r.ok
          THEN /\ popt' = r.popt
               /\ Ka_hat' = r.popt[1]
               /\ tau_hat' = r.popt[2]
               /\ y0_hat' = y0_hat_of(fit_y0, r.popt, y0_guess)
               /\ pc' = "evaluate"
               /\ err' = err
          ELSE /\ pc' = "optimize"
               /\ err' = err
               /\ UNCHANGED << popt, Ka_hat, tau_hat, y0_hat >>
    /\ trace' = Append(trace, "Optimize")
    /\ UNCHANGED << in_t, in_y, t0, fit_y0, t, y, ig, Ka0, tau0, y0_guess,
                    y_fit, residuals, SSE, SStot, R2, result, m_args, m_out >>

\* lines 90 to 108
Optimize ==
    /\ pc = "optimize"
    /\ p0' = seed_of(fit_y0, Ka0, tau0, y0_guess)
    /\ f_pin' = pin_of(fit_y0, y0_guess)
    /\ \E r \in curve_fit(p0') :
          IF r.ok
          THEN /\ popt' = r.popt
               /\ Ka_hat' = r.popt[1]
               /\ tau_hat' = r.popt[2]
               /\ y0_hat' = y0_hat_of(fit_y0, r.popt, y0_guess)
               /\ pc' = "evaluate"
               /\ err' = err
          ELSE /\ pc' = "raised"
               /\ err' = r.err
               /\ UNCHANGED << popt, Ka_hat, tau_hat, y0_hat >>
    /\ trace' = Append(trace, "Optimize")
    /\ UNCHANGED << in_t, in_y, t0, fit_y0, t, y, ig, Ka0, tau0, y0_guess,
                    y_fit, residuals, SSE, SStot, R2, result, m_args, m_out >>

\* R2 of line 116
R2_of(sse, sstot) ==
    IF FLt(Zero, sstot) THEN FSub(One, FDiv(sse, sstot)) ELSE NaN

\* lines 110 to 116
Evaluate ==
    /\ pc = "evaluate"
    /\ y_fit' = first_order_step(t, Ka_hat, tau_hat, y0_hat, t0)
    /\ residuals' = Vec([i \in 1..Len(y) |-> FSub(y[i], y_fit'[i])])
    /\ SSE' = np_sum(Vec([i \in 1..Len(y) |->
                             FMul(residuals'[i], residuals'[i])]))
    /\ LET ybar == np_mean(y)
       IN SStot' = np_sum(Vec([i \in 1..Len(y) |->
                                  FMul(FSub(y[i], ybar), FSub(y[i], ybar))]))
    /\ R2' = R2_of(SSE', SStot')
    /\ pc' = "assemble"
    /\ trace' = Append(trace, "Evaluate")
    /\ UNCHANGED << in_t, in_y, t0, fit_y0, t, y, ig, Ka0, tau0, y0_guess, p0,
                    popt, f_pin, Ka_hat, tau_hat, y0_hat, result, err, m_args,
                    m_out >>

\* lines 118 to 131
Assemble ==
    /\ pc = "assemble"
    /\ result' = [ t |-> t, y |-> y, Ka |-> Ka_hat, tau |-> tau_hat,
                   y0 |-> y0_hat, SSE |-> SSE, R2 |-> R2, y_fit |-> y_fit,
                   residuals |-> residuals, Ka0 |-> Ka0, tau0 |-> tau0,
                   y0_guess |-> y0_guess ]
    /\ pc' = "returned"
    /\ trace' = Append(trace, "Assemble")
    /\ UNCHANGED << in_t, in_y, t0, fit_y0, t, y, ig, Ka0, tau0, y0_guess, p0,
                    popt, f_pin, Ka_hat, tau_hat, y0_hat, y_fit, residuals,
                    SSE, SStot, R2, err, m_args, m_out >>

(***************************************************************************)
(* initial_guesses and first_order_step called on their own.               *)
(***************************************************************************)
\* lines 37 to 75
InitialGuesses ==
    /\ pc = "ig_call"
    /\ \E g \in initial_guesses(in_t, in_y, t0) :
        /\ ig' = g
        /\ Ka0' = g.Ka0
        /\ tau0' = g.tau0
        /\ y0_guess' = g.y0
    /\ pc' = "ig_done"
    /\ UNCHANGED << in_t, in_y, t0, fit_y0, t, y, p0, popt, f_pin, Ka_hat,
                    tau_hat, y0_hat, y_fit, residuals, SSE, SStot, R2, result,
                    err, trace, m_args, m_out >>

\* lines 5 to 26
FirstOrderStep ==
    /\ pc = "model_call"
    /\ m_out' = first_order_step(m_args.t, m_args.Ka, m_args.tau, m_args.y0,
                                 m_args.t0)
    /\ pc' = "model_done"
    /\ UNCHANGED << in_t, in_y, t0, fit_y0, t, y, ig, Ka0, tau0, y0_guess, p0,
                    popt, f_pin, Ka_hat, tau_hat, y0_hat, y_fit, residuals,
                    SSE, SStot, R2, result, err, trace, m_args >>

Next ==
    \/ Clean \/ Guess \/ Optimize \/ Evaluate \/ Assemble
    \/ InitialGuesses
    \/ FirstOrderStep

Spec == Init /\ [][Next]_vars

(***************************************************************************)
(* initial_guesses on series of up to MaxN samples.                        *)
(***************************************************************************)
NextGuess == InitialGuesses

SpecGuess == InitGuess(MaxN) /\ [][NextGuess]_vars

(***************************************************************************)
(* Properties.                                                             *)
(***************************************************************************)
InFit == pc \in {"clean", "guess", "optimize", "evaluate", "assemble",
                 "returned", "raised"}

\* the indices of the raw pairs whose two entries are finite
FinitePairs ==
    { i \in 1..Len(in_t) : isfinite(in_t[i]) /\ isfinite(in_y[i]) }

TooFewError == "ValueError: Need at least 4 valid data points."

\* C1: a call of fit_first_order with fewer than 4 finite pairs raises the
\* ValueError in its first stage: no guess is computed, the optimizer is not
\* run and no result record exists.
C1_MinimumDataGuard ==
    (InFit /\ pc # "clean" /\ Cardinality(FinitePairs) < 4) =>
        /\ pc = "raised"
        /\ err = TooFewError
        /\ trace = <<"Clean">>
        /\ ig = NoRecord /\ p0 = <<>> /\ popt = <<>>
        /\ result = NoRecord

\* C1 witness: a raw series of 4 or more pairs, 3 of them finite, was refused
C1_Witness ==
    /\ pc = "raised" /\ err = TooFewError
    /\ Len(in_t) >= 4 /\ Cardinality(FinitePairs) = 3

\* how often the pair p stands at the indices idx of the arrays (tt, yy)
PairCount(tt, yy, idx, p) == Cardinality({ i \in idx : <<tt[i], yy[i]>> = p })

\* (ct, cy) is finite, ascending in time, and holds the finite raw pairs,
\* each as often as the raw series does
CleanOK(ct, cy) ==
    /\ Len(ct) = Len(cy)
    /\ Len(ct) = Cardinality(FinitePairs)
    /\ \A i \in 1..Len(ct) : isfinite(ct[i]) /\ isfinite(cy[i])
    /\ \A i \in 1..(Len(ct) - 1) : FLe(ct[i], ct[i + 1])
    /\ \A i \in FinitePairs :
         PairCount(ct, cy, 1..Len(ct), <<in_t[i], in_y[i]>>)
           = PairCount(in_t, in_y, FinitePairs, <<in_t[i], in_y[i]>>)

\* C2: the arrays clean_sort hands to fit_first_order, and the t and y of a
\* returned record, are finite, non-decreasing in t, and are exactly the
\* finite raw pairs (as a multiset of pairs).
C2_CleaningInvariant ==
    /\ (InFit /\ pc # "clean") => CleanOK(t, y)
    /\ (result # NoRecord) => CleanOK(result.t, result.y)

\* C2 witness: a record was returned for a raw series that held a non-finite
\* entry and was out of time order
C2_Witness ==
    /\ result # NoRecord
    /\ Cardinality(FinitePairs) < Len(in_t)
    /\ \E i \in FinitePairs, j \in FinitePairs :
         i < j /\ FLt(in_t[j], in_t[i]) /\ in_y[i] # in_y[j]

\* C3: with fit_y0 = false the returned y0 is the initial guess whatever the
\* optimizer returned, the optimizer worked on the two parameters (Ka, tau)
\* with the model closed over y0_guess, and y_fit is the model at y0_guess.
C3_PinnedBaseline ==
    (result # NoRecord /\ ~fit_y0) =>
        /\ result.y0 = result.y0_guess
        /\ result.y0_guess = ig.y0
        /\ p0 = <<Ka0, tau0>>
        /\ Len(popt) = 2
        /\ f_pin = result.y0_guess
        /\ result.y_fit = first_order_step(result.t, result.Ka, result.tau,
                                           result.y0_guess, t0)

\* C3 witness: a pinned fit returned after the optimizer moved off its seed,
\* with a baseline guess other than zero
C3_Witness ==
    /\ result # NoRecord /\ ~fit_y0
    /\ popt # p0
    /\ result.y0_guess # Zero
    /\ result.Ka # Zero

AllEqual(s) == \A i \in 1..Len(s) : s[i] = s[1]

\* C4: a returned fit of constant data reports R2 = nan; every other returned
\* fit reports R2 = 1 - SSE/SStot.
C4_ConstantDataR2 ==
    (result # NoRecord) =>
        IF AllEqual(result.y) THEN result.R2 = NaN
        ELSE result.R2 = FSub(One, FDiv(result.SSE, SStot))

\* the guess bundle exists
Guessed == ig # NoRecord

\* the indices of the cleaned series at or after t0
PostStep == { j \in 1..Len(ig.t) : FLe(t0, ig.t[j]) }

FirstPost == CHOOSE j \in PostStep : \A k \in PostStep : j <= k

\* (t_last - t_first)/3, or 1.0 for fewer than 2 points, floored
Fallback ==
    PyMax(IF Len(ig.t) > 1 THEN FDiv(FSub(ig.t[Len(ig.t)], ig.t[1]), Three)
          ELSE FromInt(1000000), One)

\* the cleaned series never rises, ends lower than it starts, and its first
\* sample at or after t0 is still at the starting level
DecreasingStep ==
    /\ Guessed
    /\ FLt(ig.Ka0, Zero)
    /\ \A i \in 1..(Len(ig.y) - 1) : FLe(ig.y[i + 1], ig.y[i])
    /\ PostStep # {}
    /\ ig.y[FirstPost] = ig.y[1]

\* C5 as claimed: for decreasing step data tau0 is the fallback value.
C5_DecreasingUsesFallback ==
    DecreasingStep => ig.tau0 = Fallback

\* C5 as amended: for data with Ka0 < 0 whose first sample at or after t0 is
\* at or above y0_guess, tau0 is finite, at least 1e-6, and is the offset of
\* that first sample from t0 (floored): the crossing search stops at once.
\* The fallback value is returned when no sample at or after t0 reaches the
\* target.
C5_DecreasingCrossesAtOnce ==
    /\ (Guessed /\ FLt(ig.Ka0, Zero) /\ PostStep # {}
          /\ FLe(ig.y0, ig.y[FirstPost])) =>
            /\ isfinite(ig.tau0) /\ FLe(One, ig.tau0)
            /\ ig.tau0 = PyMax(FSub(ig.t[FirstPost], t0), One)
    /\ (Guessed /\ FLt(ig.Ka0, Zero)
          /\ \A j \in PostStep : ~FLe(ig.target, ig.y[j])) =>
            ig.tau0 = Fallback

\* C5 witness: a decreasing step whose tau0 is not the fallback value
C5_Witness ==
    /\ pc = "ig_done" /\ DecreasingStep
    /\ Len(ig.t) >= 4
    /\ ig.tau0 # Fallback

\* the model as its docstring defines it, one element
Piecewise(ti, Ka, tau, y0, t_0) ==
    IF FLt(ti, t_0) THEN y0
    ELSE FAdd(y0, FMul(Ka, FSub(One,
                  np_exp(FDiv(FNeg(FSub(ti, t_0)), tau)))))

\* C6: first_order_step returns exactly y0 for every t <= t0 and agrees, for
\* every element, with the piecewise definition.
C6_ClampIsPiecewise ==
    (pc = "model_done") =>
        \A i \in 1..Len(m_args.t) :
            /\ m_out[i] = Piecewise(m_args.t[i], m_args.Ka, m_args.tau,
                                    m_args.y0, m_args.t0)
            /\ FLe(m_args.t[i], m_args.t0) => m_out[i] = m_args.y0

\* C6 witness: the model was evaluated at t = t0 and at a t < t0, with a
\* gain other than zero
C6_Witness ==
    /\ pc = "model_done"
    /\ m_args.t[1] = m_args.t0
    /\ FLt(m_args.t[2], m_args.t0)
    /\ m_args.Ka # Zero

Stages == <<"Clean", "Guess", "Optimize", "Evaluate", "Assemble">>

\* C7: the stages of fit_first_order run in the order Clean, Guess,
\* Optimize, Evaluate, Assemble, each at most once; a failure (in Clean or
\* in Optimize) ends the call with an exception, nothing later has run and
\* no record exists; a record exists only after all five stages.
C7_SingleShotPipeline ==
    InFit =>
        /\ Len(trace) <= Len(Stages)
        /\ trace = SubSeq(Stages, 1, Len(trace))
        /\ (pc = "raised") =>
              /\ err # "" /\ result = NoRecord
              /\ trace \in {<<"Clean">>, <<"Clean", "Guess", "Optimize">>}
              /\ (trace = <<"Clean">>) => (ig = NoRecord /\ p0 = <<>>)
              /\ popt = <<>> /\ y_fit = <<>> /\ R2 = None
        /\ (pc # "raised") => err = ""
        /\ (result # NoRecord) => (trace = Stages /\ pc = "returned")
        /\ (pc = "returned") => result # NoRecord

\* C7 witness: the optimizer failed after Clean and Guess had succeeded
C7_Witness ==
    /\ pc = "raised"
    /\ trace = <<"Clean", "Guess", "Optimize">>
    /\ err = "RuntimeError: Optimal parameters not found"

\* the last k elements of s, all of s when it is shorter
LastK(s, k) ==
    [i \in 1..Min(k, Len(s)) |-> s[Len(s) - Min(k, Len(s)) + i]]

\* C9 as claimed: y_inf is the mean of the last max(3, ceil(0.2 N)) samples.
C9_TailIsCeil ==
    (pc = "ig_done") =>
        ig.y_inf = np_mean(LastK(ig.y, Max(3, (Cardinality(FinitePairs) + 4)
                                               \div 5)))

\* C9 as amended: y_inf is the mean of the last max(3, floor(0.2 N)) samples
\* (all N when N is smaller), N the number of finite pairs.
C9_TailIsFloor ==
    (pc = "ig_done") =>
        /\ ig.n_tail = Max(3, Cardinality(FinitePairs) \div 5)
        /\ ig.y_inf = np_mean(LastK(ig.y, Max(3, Cardinality(FinitePairs)
                                                 \div 5)))

\* C9 witness: a series of 20 or more points whose last 4 samples have
\* another mean than its last 3
C9_Witness ==
    /\ pc = "ig_done"
    /\ Len(ig.y) >= 20
    /\ ig.y_inf # np_mean(LastK(ig.y, 3))

\* C10: whatever branch computed it, tau0 is finite and at least 1e-6, hence
\* at least the optimizer's bound 1e-9; the seed fit_first_order hands over
\* carries that tau0, and the optimizer never refuses the seed as infeasible.
C10_Tau0Floor ==
    /\ Guessed =>
          /\ tau0 = ig.tau0
          /\ isfinite(tau0)
          /\ FLe(One, tau0)
          /\ FLe(Ratio(1, 1000), tau0)
    /\ (p0 # <<>>) => (p0[2] = tau0 /\ FLe(Ratio(1, 1000), p0[2]))
    /\ err # "ValueError: x0 is infeasible"

\* C10 witness: a seed whose tau0 sits on the floor was handed to the
\* optimizer
C10_Witness ==
    /\ p0 # <<>>
    /\ tau0 = One
    /\ pc = "evaluate"

====
